---- MODULE Spec2Model ----
(***************************************************************************)
(* A model of the Call2FA Python SDK (src/call2fa/sdk.py): one Client      *)
(* object, its constructor with the authentication exchange, the four      *)
(* request methods and the version property.  Every method is synchronous, *)
(* so one invocation (validation, at most one HTTP exchange, decoding, the *)
(* except clause) is one action.  The remote service and the transport are *)
(* the environment: every invocation that reaches the network draws the    *)
(* outcome of the exchange from Exchanges.                                 *)
(***************************************************************************)
EXTENDS Integers, Sequences, FiniteSets, TLC

\* ------------------------------------------------------------------ bounds

\* Invocations (constructor attempts, method calls, version writes) in a run.
MaxOps == 4

\* ------------------------------------------------------- Python values

PyNone == [t |-> "NoneType", v |-> "None"]
Str(s) == [t |-> "str", v |-> s]
Dict(m) == [t |-> "dict", v |-> m]
List(q) == [t |-> "list", v |-> q]

\* Mutant of Not: `x is None` in place of `not x`.
NotIsNone(x) == x.t = "NoneType"

\* Python truthiness of a value, negated: `not x`.
Not(x) ==
    \/ x.t = "NoneType"
    \/ x.t = "str" /\ x.v = ""
    \/ x.t = "dict" /\ DOMAIN x.v = {}
    \/ x.t = "list" /\ x.v = <<>>

\* Mutant of NotStr: `s is None` in place of `not s`; no str is None.
NotStrIsNone(s) == s # s

\* `not s` for an argument that is a str.
NotStr(s) == s = ""

\* str(x), as an f-string interpolates a value ({None} prints as "None").
Format(x) == IF x.t \in {"str", "NoneType"} THEN x.v ELSE "<" \o x.t \o ">"

\* dict.get(key): the value, or None when the key is absent.
Get(d, key) == IF key \in DOMAIN d.v THEN d.v[key] ELSE PyNone

\* ---------------------------------------------------- the environment

Logins == {"", "user"}
Passwords == {"", "secret"}
PhoneNumbers == {"", "+1555"}
CallbackUrls == {"", "https://httpbin.org/post"}
PoolIds == {"", "pool7"}
Codes == {"", "1234"}
Langs == {"", "en"}
CallIds == {"", "95818344"}
Versions == {"", "v1", "v2"}

StatusCodes == {200, 201, 401, 500}

\* A response body: text that is not JSON, or JSON text with its decoded value.
InvalidBody == [valid |-> FALSE, value |-> PyNone]
Json(x) == [valid |-> TRUE, value |-> x]

Bodies ==
    { InvalidBody,
      Json(List(<<>>)),
      Json(Dict(<<>>)),
      Json(Dict("jwt" :> PyNone)),
      Json(Dict("jwt" :> Str(""))),
      Json(Dict("jwt" :> Str("abc"))),
      Json(Dict("jwt" :> Str("xyz"))),
      Json(Dict("call_id" :> Str("95818344"))) }

\* Faults of the transport that requests raises as RequestException subclasses.
TransportFaults == {"ConnectionError", "Timeout"}

NoResponse(cause) == [arrived |-> FALSE, cause |-> cause, status_code |-> 0, body |-> InvalidBody]
Response(s, b) == [arrived |-> TRUE, cause |-> "", status_code |-> s, body |-> b]

\* What one HTTP exchange can come to.
Exchanges ==
    { NoResponse(c) : c \in TransportFaults }
        \cup { Response(s, b) : s \in StatusCodes, b \in Bodies }

\* ------------------------------------------------------------- state

VARIABLES
    client,            \* the Client object the caller holds, or NoClient
    last,              \* the last invocation: operation, arguments, requests sent, outcome
    auth_requests,     \* requests sent to the auth endpoint for the current object
    failed,            \* method invocations on the current object that raised
    ops,               \* invocations so far
    auth_response,     \* history: what the auth exchange of the current object came to
    version_written,   \* history: the last value the version setter was given, or None
    json_error_is_request_exception
                       \* the installed requests: whether Response.json() raises a
                       \* RequestException subclass (requests >= 2.27) or a plain ValueError

vars ==
    <<client, last, auth_requests, failed, ops, auth_response, version_written,
      json_error_is_request_exception>>

NoClient == [exists |-> FALSE]

BaseUri == "https://api-call2fa.rikkicom.io"
DefaultVersion == "v1"

\* -------------------------------------------------------- outcomes

Return(x) == [kind |-> "return", value |-> x, type |-> "", fmt |-> "", args |-> <<>>]
Raise(type, fmt, args) == [kind |-> "raise", value |-> PyNone, type |-> type, fmt |-> fmt, args |-> args]
ClientException(fmt, args) == Raise("ClientException", fmt, args)

\* The exception classes that `except requests.exceptions.RequestException` catches.
RequestExceptions == TransportFaults \cup {"requests.exceptions.JSONDecodeError"}

\* What a method hands back to its action: the object, the requests sent, the
\* responses consumed and the outcome.
Result(self, sent, got, outcome) == [self |-> self, sent |-> sent, got |-> got, outcome |-> outcome]

\* ------------------------------------------------------- the transport

NoHeaders == <<>>
NoJson == <<>>

Request(method, uri, json, headers) ==
    [method |-> method, uri |-> uri, json |-> json, headers |-> headers]

\* Mutant of SessionSend: the request is sent again after the first attempt.
SessionSendRetry(req) == <<req, req>>

\* self._session.post(...) / self._session.get(...): the call hands one request to
\* the transport.
SessionSend(req) == <<req>>

\* Response.json(): the decoded body, or the decoding error of the installed requests.
response_json(x) ==
    IF x.body.valid
    THEN Return(x.body.value)
    ELSE IF json_error_is_request_exception
         THEN Raise("requests.exceptions.JSONDecodeError", "Expecting value", <<>>)
         ELSE Raise("ValueError", "Expecting value", <<>>)

\* Mutant of ExceptRequestException: `except Exception`, which also catches the
\* ClientException raised inside the try block.
ExceptException(outcome, fmt) ==
    IF outcome.kind = "raise"
    THEN ClientException(fmt, <<outcome.type>>)
    ELSE outcome

\* `except requests.exceptions.RequestException as e: raise ClientException(f"...{e}")`
\* around a try block that came to `outcome`.
ExceptRequestException(outcome, fmt) ==
    IF outcome.kind = "raise" /\ outcome.type \in RequestExceptions
    THEN ClientException(fmt, <<outcome.type>>)
    ELSE outcome

\* ------------------------------------------------------------ Client

\* Mutant of make_full_uri: the version segment fixed at the default.
make_full_uri_default_version(self, method) ==
    self.base_uri \o "/" \o DefaultVersion \o "/" \o method \o "/"

\* Client._make_full_uri
make_full_uri(self, method) ==
    self.base_uri \o "/" \o self.version \o "/" \o method \o "/"

\* Mutant of AuthorizationHeaders: the token without its scheme.
AuthorizationHeadersNoScheme(self) == "Authorization" :> Format(self.jwt)

\* headers = {"Authorization": f"Bearer {self._jwt}"}
AuthorizationHeaders(self) == "Authorization" :> ("Bearer " \o Format(self.jwt))

\* The try block of Client._receive_jwt, given what the exchange came to:
\* the object (its _jwt assigned on a 200) and the outcome.
receive_jwt_try(self, x) ==
    IF ~x.arrived
    THEN [self |-> self, outcome |-> Raise(x.cause, "", <<>>)]
    ELSE IF x.status_code = 200
    THEN LET response_json_ == response_json(x) IN
         IF response_json_.kind = "raise"
         THEN [self |-> self, outcome |-> response_json_]
         ELSE IF response_json_.value.t # "dict"
         THEN [self |-> self,
               outcome |-> Raise("AttributeError", "'{}' object has no attribute 'get'",
                                 <<response_json_.value.t>>)]
         ELSE LET assigned == [self EXCEPT !.jwt = Get(response_json_.value, "jwt")] IN
              IF Not(assigned.jwt)
              THEN [self |-> assigned,
                    outcome |-> ClientException("JWT not found in authentication response.", <<>>)]
              ELSE [self |-> assigned, outcome |-> Return(PyNone)]
    ELSE [self |-> self,
          outcome |-> ClientException("Incorrect status code: {} on authorization step",
                                      <<ToString(x.status_code)>>)]

\* Client._receive_jwt
receive_jwt(self, x) ==
    LET auth_data == ("login" :> self.api_login) @@ ("password" :> self.api_password)
        uri == make_full_uri(self, "auth")
        try == receive_jwt_try(self, x)
    IN  Result(try.self,
               SessionSend(Request("POST", uri, auth_data, NoHeaders)),
               <<x>>,
               ExceptRequestException(try.outcome,
                   "Cannot perform a request on authorization step: {}"))

\* Client.__init__
init(login, password, x) ==
    IF NotStr(login)
    THEN Result(NoClient, <<>>, <<>>, ClientException("The login parameter is empty", <<>>))
    ELSE IF NotStr(password)
    THEN Result(NoClient, <<>>, <<>>, ClientException("The password parameter is empty", <<>>))
    ELSE receive_jwt([exists |-> TRUE,
                      api_login |-> login,
                      api_password |-> password,
                      version |-> DefaultVersion,
                      base_uri |-> BaseUri,
                      jwt |-> PyNone], x)

\* The try block of call, call_via_last_digits and call_with_code (the three are
\* the same statements), given what the exchange came to.
call_try(x) ==
    IF ~x.arrived
    THEN Raise(x.cause, "", <<>>)
    ELSE IF x.status_code # 201
    THEN ClientException("Incorrect status code: {} on call step", <<ToString(x.status_code)>>)
    ELSE response_json(x)

\* Client.call
call(self, phone_number, callback_url, x) ==
    IF NotStr(phone_number)
    THEN Result(self, <<>>, <<>>, ClientException("The phoneNumber parameter is empty", <<>>))
    ELSE LET headers == AuthorizationHeaders(self)
             call_data == ("phone_number" :> phone_number) @@ ("callback_url" :> callback_url)
             uri == make_full_uri(self, "call")
         IN  Result(self,
                    SessionSend(Request("POST", uri, call_data, headers)),
                    <<x>>,
                    ExceptRequestException(call_try(x),
                        "Cannot perform a request on call step: {}"))

\* Mutant of pool_method: the two branches exchanged.
pool_method_swapped(pool_id, use_six_digits) ==
    IF use_six_digits
    THEN "pool/" \o pool_id \o "/call"
    ELSE "pool/" \o pool_id \o "/call/six-digits"

\* method = f"pool/{pool_id}/call/six-digits" if use_six_digits else f"pool/{pool_id}/call"
pool_method(pool_id, use_six_digits) ==
    IF use_six_digits
    THEN "pool/" \o pool_id \o "/call/six-digits"
    ELSE "pool/" \o pool_id \o "/call"

\* Client.call_via_last_digits
call_via_last_digits(self, phone_number, pool_id, use_six_digits, x) ==
    IF NotStr(phone_number)
    THEN Result(self, <<>>, <<>>, ClientException("The phoneNumber parameter is empty", <<>>))
    ELSE IF NotStr(pool_id)
    THEN Result(self, <<>>, <<>>, ClientException("The poolID parameter is empty", <<>>))
    ELSE LET headers == AuthorizationHeaders(self)
             call_data == "phone_number" :> phone_number
             uri == make_full_uri(self, pool_method(pool_id, use_six_digits))
         IN  Result(self,
                    SessionSend(Request("POST", uri, call_data, headers)),
                    <<x>>,
                    ExceptRequestException(call_try(x),
                        "Cannot perform a request on call step: {}"))

\* Client.call_with_code
call_with_code(self, phone_number, code, lang, x) ==
    IF NotStr(phone_number)
    THEN Result(self, <<>>, <<>>, ClientException("The phoneNumber parameter is empty", <<>>))
    ELSE IF NotStr(code)
    THEN Result(self, <<>>, <<>>, ClientException("The code parameter is empty", <<>>))
    ELSE IF NotStr(lang)
    THEN Result(self, <<>>, <<>>, ClientException("The lang parameter is empty", <<>>))
    ELSE LET headers == AuthorizationHeaders(self)
             call_data == ("phone_number" :> phone_number) @@ ("code" :> code) @@ ("lang" :> lang)
             uri == make_full_uri(self, "code/call")
         IN  Result(self,
                    SessionSend(Request("POST", uri, call_data, headers)),
                    <<x>>,
                    ExceptRequestException(call_try(x),
                        "Cannot perform a request on call step: {}"))

\* The try block of Client.info, given what the exchange came to.
info_try(x) ==
    IF ~x.arrived
    THEN Raise(x.cause, "", <<>>)
    ELSE IF x.status_code # 200
    THEN ClientException("Incorrect status code: {}", <<ToString(x.status_code)>>)
    ELSE response_json(x)

\* Mutant of info: the stored token is dropped when the request fails.
info_dropping_jwt(self, call_id, x) ==
    IF NotStr(call_id)
    THEN Result(self, <<>>, <<>>, ClientException("The id parameter is empty", <<>>))
    ELSE LET headers == AuthorizationHeaders(self)
             uri == make_full_uri(self, "call/" \o call_id)
             outcome == ExceptRequestException(info_try(x),
                            "Cannot perform a request to get the call info: {}")
         IN  Result(IF outcome.kind = "raise" THEN [self EXCEPT !.jwt = PyNone] ELSE self,
                    SessionSend(Request("GET", uri, NoJson, headers)),
                    <<x>>,
                    outcome)

\* Client.info
info(self, call_id, x) ==
    IF NotStr(call_id)
    THEN Result(self, <<>>, <<>>, ClientException("The id parameter is empty", <<>>))
    ELSE LET headers == AuthorizationHeaders(self)
             uri == make_full_uri(self, "call/" \o call_id)
         IN  Result(self,
                    SessionSend(Request("GET", uri, NoJson, headers)),
                    <<x>>,
                    ExceptRequestException(info_try(x),
                        "Cannot perform a request to get the call info: {}"))

\* Client.version (getter)
version_get(self) == Result(self, <<>>, <<>>, Return(Str(self.version)))

\* Client.version (setter)
version_set(self, value) == Result([self EXCEPT !.version = value], <<>>, <<>>, Return(PyNone))

\* ------------------------------------------------------------ actions

Invocation(op, args, r) == [op |-> op, args |-> args, sent |-> r.sent, got |-> r.got, outcome |-> r.outcome]

AuthUri(self) == make_full_uri(self, "auth")

\* Requests among `sent` that went to the auth endpoint of `self`.
AuthSent(self, sent) ==
    IF self.exists
    THEN Cardinality({i \in DOMAIN sent : sent[i].uri = AuthUri(self)})
    ELSE 0

Init ==
    /\ client = NoClient
    /\ last = Invocation("none", <<>>, Result(NoClient, <<>>, <<>>, Return(PyNone)))
    /\ auth_requests = 0
    /\ failed = 0
    /\ ops = 0
    /\ auth_response = <<>>
    /\ version_written = PyNone
    /\ json_error_is_request_exception \in BOOLEAN

\* client = Client(login, password): the caller holds an object only when
\* __init__ returns.
Construct ==
    /\ ~client.exists
    /\ ops < MaxOps
    /\ \E login \in Logins, password \in Passwords, x \in Exchanges :
          LET r == init(login, password, x) IN
          /\ client' = IF r.outcome.kind = "return" THEN r.self ELSE NoClient
          /\ last' = Invocation("Client", <<login, password>>, r)
          /\ auth_requests' = AuthSent(r.self, r.sent)
          /\ auth_response' = r.got
    /\ failed' = 0
    /\ version_written' = PyNone
    /\ ops' = ops + 1
    /\ UNCHANGED json_error_is_request_exception

\* What every method invocation on the object does to the state around it.
Invoke(op, args, r) ==
    /\ client' = r.self
    /\ last' = Invocation(op, args, r)
    /\ auth_requests' = auth_requests + AuthSent(client, r.sent)
    /\ failed' = IF r.outcome.kind = "raise" THEN failed + 1 ELSE failed
    /\ ops' = ops + 1
    /\ UNCHANGED <<auth_response, json_error_is_request_exception>>

Call ==
    /\ client.exists
    /\ ops < MaxOps
    /\ \E phone_number \in PhoneNumbers, callback_url \in CallbackUrls, x \in Exchanges :
          Invoke("call", <<phone_number, callback_url>>,
                 call(client, phone_number, callback_url, x))
    /\ UNCHANGED version_written

CallViaLastDigits ==
    /\ client.exists
    /\ ops < MaxOps
    /\ \E phone_number \in PhoneNumbers, pool_id \in PoolIds, use_six_digits \in BOOLEAN,
          x \in Exchanges :
          Invoke("call_via_last_digits",
                 <<phone_number, pool_id, IF use_six_digits THEN "True" ELSE "False">>,
                 call_via_last_digits(client, phone_number, pool_id, use_six_digits, x))
    /\ UNCHANGED version_written

CallWithCode ==
    /\ client.exists
    /\ ops < MaxOps
    /\ \E phone_number \in PhoneNumbers, code \in Codes, lang \in Langs, x \in Exchanges :
          Invoke("call_with_code", <<phone_number, code, lang>>,
                 call_with_code(client, phone_number, code, lang, x))
    /\ UNCHANGED version_written

Info ==
    /\ client.exists
    /\ ops < MaxOps
    /\ \E call_id \in CallIds, x \in Exchanges :
          Invoke("info", <<call_id>>, info(client, call_id, x))
    /\ UNCHANGED version_written

GetVersion ==
    /\ client.exists
    /\ ops < MaxOps
    /\ Invoke("version", <<>>, version_get(client))
    /\ UNCHANGED version_written

SetVersion ==
    /\ client.exists
    /\ ops < MaxOps
    /\ \E value \in Versions :
          /\ Invoke("version.setter", <<value>>, version_set(client, value))
          /\ version_written' = Str(value)

Next ==
    \/ Construct
    \/ Call
    \/ CallViaLastDigits
    \/ CallWithCode
    \/ Info
    \/ GetVersion
    \/ SetVersion

Spec == Init /\ [][Next]_vars

\* ================================================================ claims

\* ------------------------------------------------ vocabulary of the claims

Methods == {"call", "call_via_last_digits", "call_with_code", "info"}
CallMethods == {"call", "call_via_last_digits", "call_with_code"}

InvalidArgumentMessages ==
    { "The login parameter is empty", "The password parameter is empty",
      "The phoneNumber parameter is empty", "The poolID parameter is empty",
      "The code parameter is empty", "The lang parameter is empty",
      "The id parameter is empty" }
AuthenticationFailedMessages ==
    { "JWT not found in authentication response.",
      "Incorrect status code: {} on authorization step" }
RequestFailedMessages ==
    { "Incorrect status code: {} on call step", "Incorrect status code: {}" }
TransportErrorMessages ==
    { "Cannot perform a request on authorization step: {}",
      "Cannot perform a request on call step: {}",
      "Cannot perform a request to get the call info: {}" }

\* The error kind an outcome is, read off the exception and its message.
ErrorKind(o) ==
    IF o.kind # "raise" THEN "none"
    ELSE IF o.type # "ClientException" THEN "unhandled"
    ELSE IF o.fmt \in InvalidArgumentMessages THEN "InvalidArgument"
    ELSE IF o.fmt \in AuthenticationFailedMessages THEN "AuthenticationFailed"
    ELSE IF o.fmt \in RequestFailedMessages THEN "RequestFailed"
    ELSE IF o.fmt \in TransportErrorMessages THEN "TransportError"
    ELSE "unhandled"

\* The step a status-code failure names in its message, if it names one.
StepNamed(o) ==
    IF o.fmt = "Incorrect status code: {} on call step" THEN "call"
    ELSE IF o.fmt = "Incorrect status code: {} on authorization step" THEN "authorization"
    ELSE IF o.fmt = "Incorrect status code: {} on info step" THEN "info"
    ELSE "none"

\* The required parameters of the last invocation.
RequiredArgs ==
    IF last.op \in {"Client", "call_via_last_digits"} THEN {last.args[1], last.args[2]}
    ELSE IF last.op = "call_with_code" THEN {last.args[1], last.args[2], last.args[3]}
    ELSE IF last.op \in {"call", "info"} THEN {last.args[1]}
    ELSE {}

SomeRequiredEmpty == "" \in RequiredArgs
Reached == last.got # <<>>
Arrived == Reached /\ last.got[1].arrived
NoResponseAtAll == Reached /\ ~last.got[1].arrived
SuccessCode == IF last.op \in CallMethods THEN 201 ELSE 200

\* The version in force: the last one written, "v1" when none was.
VersionInForce == IF version_written.t = "NoneType" THEN "v1" ELSE version_written.v

\* The endpoint table: the path of the last invocation's request.
ExpectedPath ==
    IF last.op = "Client" THEN "auth"
    ELSE IF last.op = "call" THEN "call"
    ELSE IF last.op = "call_with_code" THEN "code/call"
    ELSE IF last.op = "info" THEN "call/" \o last.args[1]
    ELSE IF last.args[3] = "True" THEN "pool/" \o last.args[2] \o "/call/six-digits"
    ELSE "pool/" \o last.args[2] \o "/call"

ExpectedUri ==
    "https://api-call2fa.rikkicom.io" \o "/" \o VersionInForce \o "/" \o ExpectedPath \o "/"

\* The token the authentication response of the current object carried.
IssuedToken == auth_response[1].body.value.v["jwt"].v

\* --------------------------------------------------------------------- C1
\* C1: whenever an operation (construction, call, call_via_last_digits,
\* call_with_code, info) is invoked with at least one required parameter empty,
\* it fails with InvalidArgument and the invocation sends no network request.
C1_EmptyArgumentFailsBeforeIO ==
    (last.op \in Methods \cup {"Client"} /\ SomeRequiredEmpty)
        => /\ ErrorKind(last.outcome) = "InvalidArgument"
           /\ last.sent = <<>>
           /\ ~Reached

C1_Witness ==
    /\ last.op = "call_with_code"
    /\ last.args = <<"+1555", "1234", "">>
    /\ ErrorKind(last.outcome) = "InvalidArgument"
    /\ last.sent = <<>>

\* --------------------------------------------------------------------- C2
\* C2: construction completes exactly when its one authentication response has
\* status 200 and carries a non-empty token; otherwise no client object exists;
\* so whenever a client exists (and a method can be invoked) its stored token
\* is non-empty.
AcceptableAuthResponse(got) ==
    /\ got # <<>>
    /\ got[1].arrived
    /\ got[1].status_code = 200
    /\ got[1].body.valid
    /\ got[1].body.value.t = "dict"
    /\ "jwt" \in DOMAIN got[1].body.value.v
    /\ got[1].body.value.v["jwt"].t = "str"
    /\ got[1].body.value.v["jwt"].v # ""

C2_NeverUnauthenticated ==
    /\ last.op = "Client" =>
          /\ client.exists <=> AcceptableAuthResponse(last.got)
          /\ client.exists <=> last.outcome.kind = "return"
    /\ client.exists =>
          /\ AcceptableAuthResponse(auth_response)
          /\ client.jwt.t = "str"
          /\ client.jwt.v # ""

C2_Witness ==
    /\ last.op = "Client"
    /\ Arrived
    /\ last.got[1].status_code = 200
    /\ last.got[1].body = Json(Dict("jwt" :> Str("")))
    /\ ~client.exists
    /\ ErrorKind(last.outcome) = "AuthenticationFailed"

\* --------------------------------------------------------------------- C3
\* C3: every request a method sends on a constructed client, whatever happened
\* before it, carries exactly the header Authorization: Bearer t, t being the
\* token of the authentication response; the authentication request carries no
\* Authorization header.
C3_BearerTokenOnEveryRequest ==
    \A i \in DOMAIN last.sent :
        /\ last.op \in Methods =>
              last.sent[i].headers = ("Authorization" :> ("Bearer " \o IssuedToken))
        /\ last.op = "Client" =>
              "Authorization" \notin DOMAIN last.sent[i].headers

C3_Witness ==
    /\ last.op = "info"
    /\ last.sent # <<>>
    /\ failed >= 1
    /\ version_written = Str("v2")
    /\ IssuedToken = "xyz"

\* --------------------------------------------------------------------- C4
\* C4: with valid arguments and a response of status s, call,
\* call_via_last_digits and call_with_code return the decoded body exactly when
\* s = 201 and otherwise fail with RequestFailed carrying s and the step
\* "call"; info returns the decoded body exactly when s = 200 and otherwise
\* fails with RequestFailed carrying s and the step "info".
C4_StatusDecidesOutcome ==
    (last.op \in Methods /\ Arrived) =>
        /\ last.outcome.kind = "return" <=> last.got[1].status_code = SuccessCode
        /\ last.outcome.kind = "return" =>
              /\ last.got[1].body.valid
              /\ last.outcome.value = last.got[1].body.value
        /\ last.got[1].status_code # SuccessCode =>
              /\ ErrorKind(last.outcome) = "RequestFailed"
              /\ last.outcome.args = <<ToString(last.got[1].status_code)>>
              /\ StepNamed(last.outcome) = (IF last.op = "info" THEN "info" ELSE "call")

\* --------------------------------------------------------------------- C5
\* C5: every invocation of construction, call, call_via_last_digits,
\* call_with_code or info, whatever its exchange came to, either returns (a
\* method: a decoded mapping) or fails with one of InvalidArgument,
\* AuthenticationFailed, RequestFailed, TransportError.
C5_MappingOrOneOfFourKinds ==
    last.op \in Methods \cup {"Client"} =>
        \/ last.outcome.kind = "return" /\ last.op = "Client"
        \/ last.outcome.kind = "return" /\ last.outcome.value.t = "dict"
        \/ ErrorKind(last.outcome) \in
              {"InvalidArgument", "AuthenticationFailed", "RequestFailed", "TransportError"}

\* --------------------------------------------------------------------- C6
\* C6: an exchange that produced no response at all fails the operation with
\* TransportError wrapping the cause; a response that arrived with an
\* unexpected status fails it with RequestFailed (AuthenticationFailed during
\* construction), never with TransportError.
C6_TransportFaultsAndStatusFaults ==
    /\ NoResponseAtAll =>
          /\ ErrorKind(last.outcome) = "TransportError"
          /\ last.outcome.args = <<last.got[1].cause>>
    /\ (Arrived /\ last.got[1].status_code # SuccessCode) =>
          ErrorKind(last.outcome) =
              (IF last.op = "Client" THEN "AuthenticationFailed" ELSE "RequestFailed")

C6_Witness ==
    /\ last.op = "call_via_last_digits"
    /\ NoResponseAtAll
    /\ last.got[1].cause = "Timeout"
    /\ ErrorKind(last.outcome) = "TransportError"

\* --------------------------------------------------------------------- C7
\* C7: call_via_last_digits with non-empty phone_number and pool_id sends
\* exactly one POST, to {base}/{version}/pool/{pool_id}/call/six-digits/ when
\* use_six_digits is true and to {base}/{version}/pool/{pool_id}/call/ when it
\* is false, with a body of the phone_number field only.
C7_PoolPathByFlag ==
    (last.op = "call_via_last_digits" /\ ~SomeRequiredEmpty) =>
        /\ Len(last.sent) = 1
        /\ last.sent[1].method = "POST"
        /\ last.sent[1].uri =
              "https://api-call2fa.rikkicom.io/" \o VersionInForce \o "/pool/" \o last.args[2]
                  \o (IF last.args[3] = "True" THEN "/call/six-digits/" ELSE "/call/")
        /\ last.sent[1].json = ("phone_number" :> last.args[1])

C7_Witness ==
    /\ last.op = "call_via_last_digits"
    /\ last.args = <<"+1555", "pool7", "True">>
    /\ Len(last.sent) = 1
    /\ last.sent[1].uri = "https://api-call2fa.rikkicom.io/v1/pool/pool7/call/six-digits/"

\* --------------------------------------------------------------------- C8
\* C8: the version setter accepts any string without a network call; every
\* request sent afterwards has the last written version (or "v1" when none was
\* written) as its version path segment; reading version returns that value.
C8_VersionInEveryUri ==
    /\ client.exists => client.version = VersionInForce
    /\ \A i \in DOMAIN last.sent : last.sent[i].uri = ExpectedUri
    /\ last.op = "version" => last.outcome = Return(Str(VersionInForce))
    /\ last.op = "version.setter" =>
          /\ last.outcome.kind = "return"
          /\ last.sent = <<>>
          /\ version_written = Str(last.args[1])

C8_Witness ==
    /\ version_written = Str("v2")
    /\ last.op = "call"
    /\ last.sent # <<>>
    /\ last.sent[1].uri = "https://api-call2fa.rikkicom.io/v2/call/"
    /\ failed >= 1

\* --------------------------------------------------------------------- C9
\* C9: an invocation sends at most one request, exactly one when its arguments
\* are valid; construction with valid credentials sends exactly one
\* authentication request; a constructed client never sends another request to
\* the auth endpoint, whatever status its requests get.
C9_OneRequestNoReauthentication ==
    /\ Len(last.sent) <= 1
    /\ (last.op \in Methods \cup {"Client"} /\ ~SomeRequiredEmpty) => Len(last.sent) = 1
    /\ (last.op = "Client" /\ ~SomeRequiredEmpty) =>
          /\ last.sent[1].uri = "https://api-call2fa.rikkicom.io/v1/auth/"
          /\ last.sent[1].method = "POST"
    /\ client.exists => auth_requests = 1
    /\ last.op \in Methods =>
          \A i \in DOMAIN last.sent : last.sent[i].uri # AuthUri(client)

C9_Witness ==
    /\ last.op = "call"
    /\ Arrived
    /\ last.got[1].status_code = 401
    /\ Len(last.sent) = 1
    /\ auth_requests = 1
    /\ failed >= 2

\* -------------------------------------------------------------------- C10
\* C10: an invocation of call, call_via_last_digits, call_with_code or info
\* (failed or not) and a read of version leave every field of the client as it
\* was, and the client stays constructed; the version setter changes the
\* version field and nothing else.
C10_FailedOperationChangesNothing ==
    [][ client.exists =>
          /\ client'.exists
          /\ last'.op \in Methods \cup {"version"} => client' = client
          /\ last'.op = "version.setter" =>
                client' = [client EXCEPT !.version = last'.args[1]] ]_vars

C10_Witness ==
    /\ failed >= 1
    /\ last.op = "call"
    /\ last.outcome.kind = "return"
    /\ ErrorKind(last.outcome) = "none"
    /\ client.exists

====
